---- MODULE Spec2Model ----
(***************************************************************************)
(* PensionCalculator (src/calculator.py): the payment schedule computed by *)
(* PensionCalculator.calculate.                                            *)
(*                                                                         *)
(* Dates are triples <<year, month, day>> (the time of day of a Timestamp  *)
(* read from a date cell is midnight and never changes).  Amounts are      *)
(* integer cents, the indexing rate is an integer number of percent, so    *)
(* that payment * (1 + rate) rounded to 2 decimals is an exact integer     *)
(* computation; binary floating-point representation error is not          *)
(* modelled.  NaN is the pension amount of a contract that the left join   *)
(* of _create_user_data found no pension row for.                          *)
(***************************************************************************)
EXTENDS Integers, Sequences, FiniteSets, TLC

VARIABLES user_data, params, result_df, data, pc, row, payment_date, payment,
          outcome, calls

vars == <<user_data, params, result_df, data, pc, row, payment_date, payment,
          outcome, calls>>

(***************************************************************************)
(* Bounds of the model.                                                    *)
(***************************************************************************)
NumContracts == 2
MaxCalls == 2

BirthDates == {<<2000, 2, 29>>, <<2001, 1, 30>>}
PensionStartAges == {3, 4}
ReportDates ==
    {<<2003, 2, 27>>, <<2003, 2, 28>>, <<2003, 3, 1>>, <<2004, 1, 1>>}
MaxAges == {3, 4}
IndexingRates == {5}
Years == 1999..2006

NaN == -1
PensionAmounts == {NaN, 1050}

NoDate == <<0, 0, 0>>

(***************************************************************************)
(* Calendar arithmetic: datetime, dateutil.relativedelta, pandas offsets.  *)
(***************************************************************************)
Min(a, b) == IF a <= b THEN a ELSE b

Abs(n) == IF n < 0 THEN -n ELSE n

Sign(n) == IF n < 0 THEN -1 ELSE 1

IsLeap(y) == (y % 4 = 0 /\ y % 100 # 0) \/ y % 400 = 0

DaysInMonth(y, m) ==
    IF m = 2 THEN (IF IsLeap(y) THEN 29 ELSE 28)
    ELSE IF m \in {4, 6, 9, 11} THEN 30 ELSE 31

DateLT(a, b) ==
    \/ a[1] < b[1]
    \/ a[1] = b[1] /\ a[2] < b[2]
    \/ a[1] = b[1] /\ a[2] = b[2] /\ a[3] < b[3]

DateLE(a, b) == a = b \/ DateLT(a, b)

\* date + timedelta(days=n), n >= 0
RECURSIVE AddDays(_, _)
AddDays(dt, n) ==
    IF n = 0 THEN dt
    ELSE IF dt[3] < DaysInMonth(dt[1], dt[2])
         THEN AddDays(<<dt[1], dt[2], dt[3] + 1>>, n - 1)
    ELSE IF dt[2] < 12 THEN AddDays(<<dt[1], dt[2] + 1, 1>>, n - 1)
    ELSE AddDays(<<dt[1] + 1, 1, 1>>, n - 1)

\* relativedelta._set_months: a month count split into years and months,
\* both of the sign of the count
YearsOf(months) ==
    IF Abs(months) > 11 THEN Sign(months) * (Abs(months) \div 12) ELSE 0

MonthsOf(months) ==
    IF Abs(months) > 11 THEN Sign(months) * (Abs(months) % 12) ELSE months

\* dt + relativedelta(years, months, days), |months| <= 11: the year and the
\* month move first, the day is cut to the length of the month reached, and
\* the days are added last
AddRelativedelta(dt, years, months, days) ==
    LET y0 == dt[1] + years
        m0 == dt[2] + months
        y == IF m0 > 12 THEN y0 + 1 ELSE IF m0 < 1 THEN y0 - 1 ELSE y0
        m == IF m0 > 12 THEN m0 - 12 ELSE IF m0 < 1 THEN m0 + 12 ELSE m0
        d == Min(DaysInMonth(y, m), dt[3])
    IN AddDays(<<y, m, d>>, days)

\* the loop of relativedelta(dt1, dt2): the month count is moved towards
\* zero until dt2 + months is not beyond dt1
RECURSIVE AdjustMonths(_, _, _)
AdjustMonths(dt1, dt2, months) ==
    LET dtm == AddRelativedelta(dt2, YearsOf(months), MonthsOf(months), 0)
    IN IF DateLT(dt1, dt2)
       THEN (IF DateLT(dtm, dt1) THEN AdjustMonths(dt1, dt2, months + 1)
             ELSE months)
       ELSE (IF DateLT(dt1, dtm) THEN AdjustMonths(dt1, dt2, months - 1)
             ELSE months)

\* relativedelta(dt1, dt2).years
ElapsedYears(dt1, dt2) ==
    YearsOf(AdjustMonths(dt1, dt2,
                         (dt1[1] - dt2[1]) * 12 + (dt1[2] - dt2[2])))

\* Timestamp.is_month_end
IsMonthEnd(dt) == dt[3] = DaysInMonth(dt[1], dt[2])

\* date + pd.offsets.MonthEnd() for a date that is not a month end
MonthEnd(dt) == <<dt[1], dt[2], DaysInMonth(dt[1], dt[2])>>

\* the date is returned as it came
GetLastDayOfMonthMutant(dt) == dt

\* _get_last_day_of_month
GetLastDayOfMonth(dt) == IF ~IsMonthEnd(dt) THEN MonthEnd(dt) ELSE dt

(***************************************************************************)
(* The calculator.                                                         *)
(***************************************************************************)
\* the test of on_pension is inverted
CalculateStartDateMutant(r) ==
    LET on_pension ==
            ElapsedYears(params.START_DATE, r.birthdate) >= r.pension_start
    IN IF on_pension
       THEN GetLastDayOfMonth(
                AddRelativedelta(r.birthdate, r.pension_start, 0, 0))
       ELSE params.START_DATE

\* _calculate_start_date
CalculateStartDate(r) ==
    LET on_pension ==
            ElapsedYears(params.START_DATE, r.birthdate) >= r.pension_start
    IN IF ~on_pension
       THEN GetLastDayOfMonth(
                AddRelativedelta(r.birthdate, r.pension_start, 0, 0))
       ELSE params.START_DATE

\* the end_date column of _preprocess_contract_data
CalculateEndDate(r) == AddRelativedelta(r.birthdate, params.MAX_AGE, 0, 1)

PreprocessContractData(ud) ==
    [k \in DOMAIN ud |->
        [ud[k] EXCEPT !.start_date = CalculateStartDate(ud[k]),
                      !.end_date = CalculateEndDate(ud[k])]]

\* the indexing month is keyed from 0: December is indexed, not January
IndexingRateMutant(month) ==
    IF month = 12 THEN params.PENSION_INDEXING_RATE ELSE 0

\* self._indexing_month.get(month, 0)
IndexingRate(month) ==
    IF month = 1 THEN params.PENSION_INDEXING_RATE ELSE 0

\* round half to even of n / d, d > 0, n >= 0 (np.round)
RoundHalfEven(n, d) ==
    LET q == n \div d
        r == n % d
    IN IF 2 * r < d THEN q
       ELSE IF 2 * r > d THEN q + 1
       ELSE IF q % 2 = 0 THEN q ELSE q + 1

\* np.round(payment * (1 + rate), 2), in cents and percent; NaN stays NaN
IndexedPayment(p, rate) ==
    IF p = NaN THEN NaN ELSE RoundHalfEven(p * (100 + rate), 100)

\* the month is not advanced
NextPaymentDateMutant(dt) == GetLastDayOfMonth(dt)

\* the date of the next payment
NextPaymentDate(dt) == GetLastDayOfMonth(AddRelativedelta(dt, 0, 1, 0))

\* the sort key ["Дата платежа", "Номер договора"]
KeyLT(a, b) ==
    \/ DateLT(a.payment_date, b.payment_date)
    \/ a.payment_date = b.payment_date /\ a.contract < b.contract

\* the place of row k after a stable sort: the rows of a smaller key, and the
\* earlier rows of the same key, come before it
Rank(s, k) ==
    1 + Cardinality({j \in DOMAIN s :
                        \/ KeyLT(s[j], s[k])
                        \/ ~KeyLT(s[k], s[j]) /\ j < k})

\* the sorted frame is dropped and the rows stay as they were appended
SortValuesMutant(s) == s

\* DataFrame.sort_values on two columns: a stable sort
SortValues(s) ==
    [i \in DOMAIN s |-> s[CHOOSE k \in DOMAIN s : Rank(s, k) = i]]

\* the rows of the user data carry the contract numbers in ascending or in
\* descending order
RowOrders ==
    {[k \in 1..NumContracts |-> k],
     [k \in 1..NumContracts |-> NumContracts + 1 - k]}

Init ==
    /\ params \in [START_DATE : ReportDates,
                   PENSION_INDEXING_RATE : IndexingRates,
                   MAX_AGE : MaxAges]
    /\ \E ids \in RowOrders :
       \E b \in [1..NumContracts -> BirthDates] :
       \E s \in [1..NumContracts -> PensionStartAges] :
       \E a \in [1..NumContracts -> PensionAmounts] :
          user_data = [k \in 1..NumContracts |->
                          [contract |-> ids[k],
                           birthdate |-> b[k],
                           pension_start |-> s[k],
                           pension_amount |-> a[k],
                           start_date |-> NoDate,
                           end_date |-> NoDate]]
    /\ result_df = [is_none |-> TRUE, rows |-> <<>>]
    /\ data = <<>>
    /\ pc = "idle"
    /\ row = 0
    /\ payment_date = NoDate
    /\ payment = 0
    /\ outcome = "none"
    /\ calls = 0

\* calculate is called: bool(DataFrame) raises ValueError once a result is
\* stored; otherwise the dates are computed and the loop over the rows starts
Calculate ==
    /\ pc = "idle"
    /\ calls < MaxCalls
    /\ calls' = calls + 1
    /\ IF ~result_df.is_none
       THEN /\ outcome' = "ValueError"
            /\ UNCHANGED <<user_data, params, result_df, data, pc, row,
                           payment_date, payment>>
       ELSE /\ user_data' = PreprocessContractData(user_data)
            /\ data' = <<>>
            /\ pc' = "for"
            /\ row' = 0
            /\ outcome' = "none"
            /\ UNCHANGED <<params, result_df, payment_date, payment>>

\* for contract, row in self._user_data.iterrows(): the next row
ForNext ==
    /\ pc = "for"
    /\ row < Len(user_data)
    /\ row' = row + 1
    /\ payment_date' = user_data[row + 1].start_date
    /\ payment' = user_data[row + 1].pension_amount
    /\ pc' = "while"
    /\ UNCHANGED <<user_data, params, result_df, data, outcome, calls>>

\* one iteration of while payment_date <= row.end_date
WhileStep ==
    /\ pc = "while"
    /\ DateLE(payment_date, user_data[row].end_date)
    /\ LET p == IndexedPayment(payment, IndexingRate(payment_date[2]))
       IN /\ payment' = p
          /\ data' = Append(data, [contract |-> user_data[row].contract,
                                   payment_date |-> payment_date,
                                   amount |-> p])
    /\ payment_date' = NextPaymentDate(payment_date)
    /\ UNCHANGED <<user_data, params, result_df, pc, row, outcome, calls>>

\* the while condition is false
WhileExit ==
    /\ pc = "while"
    /\ ~DateLE(payment_date, user_data[row].end_date)
    /\ pc' = "for"
    /\ UNCHANGED <<user_data, params, result_df, data, row, payment_date,
                   payment, outcome, calls>>

\* the rows are exhausted: pd.DataFrame(data).sort_values([...]) raises
\* KeyError on a frame without columns (no entry), else the result is stored
\* and returned
Finish ==
    /\ pc = "for"
    /\ row = Len(user_data)
    /\ pc' = "idle"
    /\ IF data = <<>>
       THEN /\ outcome' = "KeyError"
            /\ UNCHANGED result_df
       ELSE /\ outcome' = "returned"
            /\ result_df' = [is_none |-> FALSE, rows |-> SortValues(data)]
    /\ UNCHANGED <<user_data, params, data, row, payment_date, payment, calls>>

Next == Calculate \/ ForNext \/ WhileStep \/ WhileExit \/ Finish

Spec == Init /\ [][Next]_vars

\* the runs whose rows carry the contract numbers in ascending order and
\* whose contracts all have a pension amount
InitLive ==
    /\ Init
    /\ \A k \in DOMAIN user_data :
        user_data[k].contract = k /\ user_data[k].pension_amount # NaN

\* a call that has started runs on: nothing suspends the interpreter
LiveSpec ==
    InitLive /\ [][Next]_vars /\ WF_vars(ForNext) /\ WF_vars(WhileStep) /\ WF_vars(WhileExit)
         /\ WF_vars(Finish)

(***************************************************************************)
(* Vocabulary of the properties.                                           *)
(***************************************************************************)
\* the start_date and end_date columns have been computed
Preprocessed == \A k \in DOMAIN user_data : user_data[k].start_date # NoDate

\* whole elapsed years from birthdate to report_date >= pension_start_age
OnPension(r) ==
    ElapsedYears(params.START_DATE, r.birthdate) >= r.pension_start

LastDayOf(y, m) == <<y, m, DaysInMonth(y, m)>>

MonthIndex(dt) == dt[1] * 12 + dt[2]

\* the entries emitted so far for contract c, in the order of emission
EntriesOf(c) == SelectSeq(data, LAMBDA e : e.contract = c)

\* the rows whose while loop has ended
DoneRows == IF pc = "while" THEN 1..(row - 1) ELSE 1..row

Returned == pc = "idle" /\ outcome = "returned"

\* the month ends d with from <= d <= to
MonthEndsIn(from, to) ==
    {d \in {LastDayOf(y, m) : y \in Years, m \in 1..12} :
        DateLE(from, d) /\ DateLE(d, to)}

(***************************************************************************)
(* C1: for every contract whose whole elapsed years from birthdate to      *)
(* report_date are >= pension_start_age, the start date (and the           *)
(* payment_date of the first entry) is report_date moved to the last day   *)
(* of its month, also when report_date is not a month end.                 *)
(* The code takes report_date as it is: violated.                          *)
(***************************************************************************)
C1_StartIsReportMonthEnd ==
    Preprocessed =>
        \A k \in DOMAIN user_data :
            OnPension(user_data[k]) =>
                LET rd == params.START_DATE
                    es == EntriesOf(user_data[k].contract)
                IN /\ user_data[k].start_date = LastDayOf(rd[1], rd[2])
                   /\ es # <<>> => es[1].payment_date = LastDayOf(rd[1], rd[2])

(***************************************************************************)
(* C2: every emitted payment_date is the last day of its month, and each   *)
(* payment_date after a contract's first lies in the month right after the *)
(* previous entry's month.  Violated by the first entry of a contract      *)
(* already at pension age when report_date is no month end (C1).           *)
(***************************************************************************)
C2_MonthEndsInConsecutiveMonths ==
    \A k \in DOMAIN user_data :
        LET es == EntriesOf(user_data[k].contract)
        IN \A i \in DOMAIN es :
            /\ es[i].payment_date[3]
                   = DaysInMonth(es[i].payment_date[1], es[i].payment_date[2])
            /\ i > 1 => MonthIndex(es[i].payment_date)
                            = MonthIndex(es[i - 1].payment_date) + 1

(***************************************************************************)
(* C3: a contract gets as many entries as there are month ends from its    *)
(* start_date up to end_date, no entry is later than end_date, and a       *)
(* contract whose month-end start date exceeds end_date gets none.         *)
(* Violated by a contract already at pension age whose end_date lies       *)
(* between a mid-month report_date and the end of that month (C1).         *)
(***************************************************************************)
C3_EntryCount ==
    \A k \in DoneRows :
        LET r == user_data[k]
            es == EntriesOf(r.contract)
        IN /\ Len(es) = Cardinality(MonthEndsIn(r.start_date, r.end_date))
           /\ \A i \in DOMAIN es : DateLE(es[i].payment_date, r.end_date)
           /\ DateLT(r.end_date, LastDayOf(r.start_date[1], r.start_date[2]))
                  => es = <<>>

(***************************************************************************)
(* C4: the amount of every emitted entry is the previous amount of the     *)
(* contract (the rounded amount of its preceding entry, or                 *)
(* initial_pension_amount for the first entry) times (1 + rate), rounded   *)
(* to 2 decimals, with rate = indexing_rate in January and 0 otherwise.    *)
(***************************************************************************)
C4_AmountIndexedOncePerEntry ==
    \A k \in DOMAIN user_data :
        LET r == user_data[k]
            es == EntriesOf(r.contract)
        IN \A i \in DOMAIN es :
            LET previous == IF i = 1 THEN r.pension_amount
                            ELSE es[i - 1].amount
                rate == IF es[i].payment_date[2] = 1
                        THEN params.PENSION_INDEXING_RATE ELSE 0
            IN es[i].amount = IF previous = NaN THEN NaN
                              ELSE RoundHalfEven(previous * (100 + rate), 100)

\* a first entry and a later entry, both in January, both raised
C4_Witness ==
    /\ Returned
    /\ \E k \in DOMAIN user_data :
        LET es == EntriesOf(user_data[k].contract)
        IN /\ Len(es) > 0
           /\ es[1].payment_date[2] = 1
           /\ es[1].amount > user_data[k].pension_amount
           /\ user_data[k].pension_amount # NaN
    /\ \E k \in DOMAIN user_data :
        LET es == EntriesOf(user_data[k].contract)
        IN \E i \in DOMAIN es :
            /\ i > 1
            /\ es[i].payment_date[2] = 1
            /\ es[i - 1].amount # NaN
            /\ es[i].amount > es[i - 1].amount

(***************************************************************************)
(* C5: in the returned ledger, A precedes B if and only if                 *)
(* (A.payment_date, A.contract_id) < (B.payment_date, B.contract_id), so   *)
(* the pair is unique, whatever the order of the rows.                     *)
(***************************************************************************)
C5_LedgerOrder ==
    Returned =>
        LET rows == result_df.rows
        IN /\ Len(rows) = Len(data)
           /\ \A i, j \in DOMAIN rows :
                (i < j) <=>
                    \/ DateLT(rows[i].payment_date, rows[j].payment_date)
                    \/ /\ rows[i].payment_date = rows[j].payment_date
                       /\ rows[i].contract < rows[j].contract

\* the entries were emitted in another order, two of them on the same date
C5_Witness ==
    /\ Returned
    /\ result_df.rows # data
    /\ \E i, j \in DOMAIN data :
        /\ data[i].payment_date = data[j].payment_date
        /\ data[i].contract > data[j].contract
        /\ i < j

(***************************************************************************)
(* C6: for every contract whose whole elapsed years from birthdate to      *)
(* report_date are < pension_start_age, the start date is the last day of  *)
(* the month of birthdate + pension_start_age years, also for a birthdate  *)
(* of Feb 29 whose anniversary falls in a non-leap year.                   *)
(***************************************************************************)
C6_StartIsAnniversaryMonthEnd ==
    Preprocessed =>
        \A k \in DOMAIN user_data :
            LET r == user_data[k]
            IN ~OnPension(r) =>
                r.start_date = LastDayOf(r.birthdate[1] + r.pension_start,
                                         r.birthdate[2])

\* a Feb 29 birthdate with the anniversary in a non-leap year, and a
\* birthdate that is no month end, both before pension age
C6_Witness ==
    /\ Preprocessed
    /\ \E k \in DOMAIN user_data :
        LET r == user_data[k]
        IN /\ ~OnPension(r)
           /\ r.birthdate[2] = 2 /\ r.birthdate[3] = 29
           /\ ~IsLeap(r.birthdate[1] + r.pension_start)
           /\ r.start_date[3] = 28
    /\ \E k \in DOMAIN user_data :
        LET r == user_data[k]
        IN ~OnPension(r) /\ r.birthdate[3] = 30 /\ r.start_date[3] = 31

(***************************************************************************)
(* C7: when a contract lacks its pension amount (it is absent from the     *)
(* pension data), calculate never returns a ledger holding an entry of     *)
(* that contract with an undefined amount.  The code returns such          *)
(* entries: violated.                                                      *)
(***************************************************************************)
C7_NoUndefinedAmountReturned ==
    Returned => \A i \in DOMAIN result_df.rows : result_df.rows[i].amount # NaN

(***************************************************************************)
(* C8: once calculate has returned a ledger, every later call completes    *)
(* without error and returns that ledger.  The later call raises           *)
(* ValueError: violated.                                                   *)
(***************************************************************************)
C8_LaterCallsReturnTheLedger ==
    (pc = "idle" /\ ~result_df.is_none) => outcome = "returned"

(***************************************************************************)
(* C9: payment_date strictly increases on every iteration of the while     *)
(* loop, and every call of calculate that has started comes to its end.    *)
(***************************************************************************)
C9_LoopTerminates ==
    /\ [][(pc = "while" /\ pc' = "while")
             => DateLT(payment_date, payment_date')]_vars
    /\ (pc # "idle") ~> (pc = "idle")

\* a run with a schedule of a year or more has come to its end
C9_Witness ==
    /\ pc = "idle"
    /\ calls > 0
    /\ \E k \in DOMAIN user_data : Len(EntriesOf(user_data[k].contract)) >= 12

(***************************************************************************)
(* C10: no entry has a payment_date earlier than report_date, whether the  *)
(* contract is at pension age at report_date or not, Feb 29 birthdates     *)
(* included.                                                               *)
(***************************************************************************)
C10_NoPaymentBeforeReportDate ==
    /\ \A i \in DOMAIN data : DateLE(params.START_DATE, data[i].payment_date)
    /\ \A i \in DOMAIN result_df.rows :
        DateLE(params.START_DATE, result_df.rows[i].payment_date)
    /\ Preprocessed =>
        \A k \in DOMAIN user_data :
            ~OnPension(user_data[k]) =>
                DateLT(params.START_DATE, user_data[k].start_date)

\* entries of a Feb 29 contract before pension age and of one at pension age
C10_Witness ==
    /\ Returned
    /\ \E k \in DOMAIN user_data :
        /\ ~OnPension(user_data[k])
        /\ user_data[k].birthdate[3] = 29
        /\ EntriesOf(user_data[k].contract) # <<>>
    /\ \E k \in DOMAIN user_data :
        /\ OnPension(user_data[k])
        /\ EntriesOf(user_data[k].contract) # <<>>

====
